---- MODULE Spec2Model ----
(***************************************************************************)
(* Taskception: the in-memory todo tree and its operation-based undo/redo  *)
(* log, as implemented by the useTodos hook (src/src/hooks/useTodos.ts,    *)
(* the operation-based version, lines 328-851), and the best-effort        *)
(* persistence around it (useTodosWithDB, DatabaseFramework).              *)
(*                                                                         *)
(* A Todo is a record [id, title, completed, expanded, endDate, createdAt, *)
(* children].  A date is modelled by its representation:                   *)
(*   "none"  the field is undefined,                                       *)
(*   "date"  a Date object (new Date()),                                   *)
(*   "iso"   the ISO string a Date becomes in JSON.parse(JSON.stringify()).*)
(* updatedAt is a string only where createdAt is one, and the operations'  *)
(* timestamp is never read: neither is modelled.                           *)
(* An optional value (Todo | null, op.todo?) is a sequence of length <= 1. *)
(***************************************************************************)
EXTENDS Integers, Sequences, FiniteSets, TLC

VARIABLES
    todos,          \* useState<Todo[]>(initialTodos)
    undoStack,      \* useState<TodoOperation[]>([])
    redoStack,      \* useState<TodoOperation[]>([])
    editingTodoId,  \* useState<string | null>(null)
    nextId,         \* number of ids uuidv4() has handed out so far
    hist,           \* history: the last calls with the state each one left
    budget,         \* calls the environment may still make
    db              \* useTodosWithDB: its state, the remote table, the last result

vars == <<todos, undoStack, redoStack, editingTodoId, nextId, hist, budget, db>>

\* ------------------------------------------------------------------ bounds
MaxSteps == 3
MaxToggleSteps == 6
MaxReplaySteps == 6
MaxRecordSteps == 4
MaxMoveSteps == 3
MaxEditSteps == 4
MaxPureSteps == 2
MaxSyncSteps == 3
MaxBurstSteps == 4
MaxOverlapSteps == 8
MaxNewTodos == 1

\* --------------------------------------------------------------- constants
MAX_HISTORY_SIZE == 50

\* undefined / null
NULL == "null"
\* an id no node carries (a stale id)
MissingId == "zz"

Positions == {"before", "after", "inside"}

Leaf(id, title, completed, expanded, endDate) ==
    [id |-> id, title |-> title, completed |-> completed, expanded |-> expanded,
     endDate |-> endDate, createdAt |-> "date", children |-> <<>>]

initialTodos ==
    << [id |-> "1", title |-> "Plan vacation", completed |-> FALSE, expanded |-> TRUE,
        endDate |-> "none", createdAt |-> "date",
        children |->
          << Leaf("2", "Book flights", FALSE, FALSE, "none"),
             [id |-> "3", title |-> "Find accommodation", completed |-> FALSE,
              expanded |-> TRUE, endDate |-> "none", createdAt |-> "date",
              children |->
                << Leaf("4", "Research hotels", FALSE, FALSE, "none"),
                   Leaf("5", "Compare prices", FALSE, FALSE, "none") >>] >>],
       [id |-> "6", title |-> "Complete project", completed |-> FALSE, expanded |-> FALSE,
        endDate |-> "none", createdAt |-> "date",
        children |-> << Leaf("7", "Write documentation", FALSE, FALSE, "none") >>],
       Leaf("8", "Setup development environment", TRUE, FALSE, "date") >>

\* uuidv4(): the n-th fresh id
Uuid(n) == IF n = 0 THEN "u1" ELSE IF n = 1 THEN "u2" ELSE IF n = 2 THEN "u3" ELSE "u4"

\* faulty variant of Trim: white space is kept
TrimNothing(s) == s

\* String.prototype.trim over the titles the model uses
Trim(s) == IF s = " " THEN "" ELSE s

\* --------------------------------------------------------- tree primitives
RECURSIVE findTodoById(_, _)
findTodoById(ts, id) ==
    IF ts = <<>> THEN <<>>
    ELSE LET todo == Head(ts) IN
         IF todo.id = id THEN <<todo>>
         ELSE LET found == findTodoById(todo.children, id) IN
              IF found # <<>> THEN found ELSE findTodoById(Tail(ts), id)

NotFound == [todo |-> <<>>, parent |-> <<>>, index |-> -1, parentId |-> NULL]

\* the for loop of findTodoAndParentById from index i on (i is 1-based here,
\* the index reported is the code's 0-based one)
RECURSIVE findFrom(_, _, _, _, _)
findFrom(ts, i, id, parentId, rootTodos) ==
    IF i > Len(ts) THEN NotFound
    ELSE LET todo == ts[i] IN
         IF todo.id = id
         THEN [todo |-> <<todo>>,
               parent |-> IF parentId # NULL THEN findTodoById(rootTodos, parentId) ELSE <<>>,
               index |-> i - 1,
               parentId |-> parentId]
         ELSE LET found == findFrom(todo.children, 1, id, todo.id, rootTodos) IN
              IF found.todo # <<>> THEN found
              ELSE findFrom(ts, i + 1, id, parentId, rootTodos)

findTodoAndParentById(ts, id, parentId, rootTodos) ==
    findFrom(ts, 1, id, parentId, rootTodos)

\* The updater closures passed to updateTodoInTree, as data:
\*   [kind |-> "replace", todo]                    (_todo) => op.oldTodo / op.newTodo
\*   [kind |-> "completion", completed, endDate]   {...todo, completed, endDate}
\*   [kind |-> "expansion", expanded]              {...todo, expanded}
\*   [kind |-> "flip"]                             {...todo, expanded: !todo.expanded}
\*   [kind |-> "title", title]                     {...todo, title}
applyUpdater(u, todo) ==
    CASE u.kind = "replace"    -> u.todo
      [] u.kind = "completion" -> [todo EXCEPT !.completed = u.completed, !.endDate = u.endDate]
      [] u.kind = "expansion"  -> [todo EXCEPT !.expanded = u.expanded]
      [] u.kind = "flip"       -> [todo EXCEPT !.expanded = ~todo.expanded]
      [] u.kind = "title"      -> [todo EXCEPT !.title = u.title]

RECURSIVE updateTodoInTree(_, _, _)
updateTodoInTree(ts, id, u) ==
    [i \in 1..Len(ts) |->
        IF ts[i].id = id THEN applyUpdater(u, ts[i])
        ELSE [ts[i] EXCEPT !.children = updateTodoInTree(ts[i].children, id, u)]]

RECURSIVE removeTodoFromTree(_, _)
removeTodoFromTree(ts, id) ==
    LET kept == SelectSeq(ts, LAMBDA t : t.id # id) IN
    [i \in 1..Len(kept) |->
        [kept[i] EXCEPT !.children = removeTodoFromTree(kept[i].children, id)]]

\* faulty variant of addTodoToTree: the new node is appended behind its siblings
RECURSIVE addTodoAtEnd(_, _, _)
addTodoAtEnd(ts, parentId, newTodo) ==
    IF parentId = NULL THEN Append(ts, newTodo)
    ELSE [i \in 1..Len(ts) |->
            IF ts[i].id = parentId
            THEN [ts[i] EXCEPT !.children = Append(ts[i].children, newTodo),
                               !.expanded = TRUE]
            ELSE [ts[i] EXCEPT !.children = addTodoAtEnd(ts[i].children, parentId, newTodo)]]

RECURSIVE addTodoToTree(_, _, _)
addTodoToTree(ts, parentId, newTodo) ==
    IF parentId = NULL THEN <<newTodo>> \o ts
    ELSE [i \in 1..Len(ts) |->
            IF ts[i].id = parentId
            THEN [ts[i] EXCEPT !.children = <<newTodo>> \o ts[i].children,
                               !.expanded = TRUE]
            ELSE [ts[i] EXCEPT !.children = addTodoToTree(ts[i].children, parentId, newTodo)]]

\* faulty variant of isAllChildrenCompleted: only the direct children are read
childrenCompleted(todo) ==
    \A i \in 1..Len(todo.children) : todo.children[i].completed

RECURSIVE isAllChildrenCompleted(_)
isAllChildrenCompleted(todo) ==
    IF Len(todo.children) = 0 THEN TRUE
    ELSE \A i \in 1..Len(todo.children) :
            todo.children[i].completed /\ isAllChildrenCompleted(todo.children[i])

\* faulty variant of sortTodos: the children are not sorted
sortTopLevelOnly(ts) ==
    SelectSeq(ts, LAMBDA t : ~t.completed) \o SelectSeq(ts, LAMBDA t : t.completed)

RECURSIVE sortTodos(_)
sortTodos(ts) ==
    LET incomplete == SelectSeq(ts, LAMBDA t : ~t.completed)
        completed  == SelectSeq(ts, LAMBDA t : t.completed)
        both       == incomplete \o completed
    IN  [i \in 1..Len(both) |-> [both[i] EXCEPT !.children = sortTodos(both[i].children)]]

\* The loop of moveTodo's insertTodo from index i on.  The code tells "inserted
\* below this sibling" by updatedChildren !== todo.children: the recursive call
\* returns its argument itself exactly when the target is nowhere in it.
RECURSIVE insertFrom(_, _, _, _, _)
insertFrom(ts, i, targetId, draggedTodo, position) ==
    IF i > Len(ts) THEN ts
    ELSE LET todo == ts[i] IN
         IF todo.id = targetId
         THEN CASE position = "inside" ->
                     [k \in 1..Len(ts) |->
                         IF ts[k].id = targetId
                         THEN [ts[k] EXCEPT !.children = Append(ts[k].children, draggedTodo),
                                            !.expanded = TRUE]
                         ELSE ts[k]]
                [] position = "before" ->
                     SubSeq(ts, 1, i - 1) \o <<draggedTodo>> \o SubSeq(ts, i, Len(ts))
                [] OTHER ->
                     SubSeq(ts, 1, i) \o <<draggedTodo>> \o SubSeq(ts, i + 1, Len(ts))
         ELSE IF findTodoById(todo.children, targetId) # <<>>
              THEN LET updatedChildren ==
                           insertFrom(todo.children, 1, targetId, draggedTodo, position)
                   IN  [k \in 1..Len(ts) |->
                           IF ts[k].id = todo.id
                           THEN [ts[k] EXCEPT !.children = updatedChildren]
                           ELSE ts[k]]
              ELSE insertFrom(ts, i + 1, targetId, draggedTodo, position)

\* faulty variant of insertTodo: every drop is treated as a drop inside the target
insertAlwaysInside(ts, targetId, draggedTodo, position) ==
    insertFrom(ts, 1, targetId, draggedTodo, "inside")

insertTodo(ts, targetId, draggedTodo, position) ==
    insertFrom(ts, 1, targetId, draggedTodo, position)

\* JSON.parse(JSON.stringify(currentTodos)): a Date becomes its ISO string, an
\* undefined endDate stays absent, every other modelled field is copied.
RECURSIVE JsonCopy(_)
JsonCopy(ts) ==
    [i \in 1..Len(ts) |->
        [ts[i] EXCEPT !.endDate = IF ts[i].endDate = "date" THEN "iso" ELSE ts[i].endDate,
                      !.createdAt = "iso",
                      !.children = JsonCopy(ts[i].children)]]

\* ----------------------------------------------------------- operation log
\* faulty variant of completionOf: a redo writes the old values, like an undo
completionAlwaysOld(operation, isRedo) ==
    [kind |-> "completion", completed |-> operation.oldCompleted,
     endDate |-> operation.oldEndDate]

\* faulty variant of completionOf: a redo flips the flag but keeps the old endDate
completionKeepingDate(operation, isRedo) ==
    [kind |-> "completion",
     completed |-> IF isRedo THEN ~operation.oldCompleted
                   ELSE operation.oldCompleted,
     endDate |-> operation.oldEndDate]

\* the updater of the 'toggleCompletion' case of applyOperation
completionOf(operation, isRedo) ==
    [kind |-> "completion",
     completed |-> IF isRedo THEN ~operation.oldCompleted
                   ELSE operation.oldCompleted,
     endDate |-> IF isRedo
                 THEN (IF operation.oldCompleted THEN "none" ELSE "date")
                 ELSE operation.oldEndDate]

\* faulty variant of moveParentOf: an undo re-inserts under the new target
moveParentAlwaysNew(operation, isRedo) ==
    operation.newTargetId

\* the parent under which the 'move' case of applyOperation re-inserts
moveParentOf(operation, isRedo) ==
    IF isRedo THEN operation.newTargetId ELSE operation.oldTargetId

applyOperation(currentTodos, operation, isRedo) ==
    LET newTodos == JsonCopy(currentTodos) IN
    CASE operation.type = "add" ->
            removeTodoFromTree(newTodos, operation.todo.id)
      [] operation.type = "delete" ->
            IF operation.todo # <<>>
            THEN addTodoToTree(newTodos, operation.parentId, operation.todo[1])
            ELSE newTodos
      [] operation.type = "update" ->
            updateTodoInTree(newTodos, operation.id,
                [kind |-> "replace",
                 todo |-> IF isRedo THEN operation.newTodo ELSE operation.oldTodo])
      [] operation.type = "move" ->
            LET draggedTodo == findTodoById(newTodos, operation.draggedId) IN
            IF draggedTodo = <<>> THEN currentTodos
            ELSE LET tempTodosWithoutDragged ==
                         removeTodoFromTree(newTodos, operation.draggedId)
                 IN  addTodoToTree(tempTodosWithoutDragged,
                         moveParentOf(operation, isRedo), draggedTodo[1])
      [] operation.type = "toggleCompletion" ->
            updateTodoInTree(newTodos, operation.id, completionOf(operation, isRedo))
      [] operation.type = "toggleExpansion" ->
            updateTodoInTree(newTodos, operation.id,
                [kind |-> "expansion",
                 expanded |-> IF isRedo THEN ~operation.oldExpanded
                              ELSE operation.oldExpanded])
      [] OTHER -> currentTodos

\* faulty variant of pushCapped: the stack grows without the shift() of the oldest operation
pushUncapped(prev, operation) ==
    Append(prev, operation)

\* setUndoStack(prev => ...) of recordOperation
pushCapped(prev, operation) ==
    LET newStack == Append(prev, operation) IN
    IF Len(newStack) > MAX_HISTORY_SIZE THEN Tail(newStack) ELSE newStack

\* faulty variant of recordOperation: recording leaves the redo stack alone
recordKeepingRedo(operation) ==
    /\ undoStack' = pushCapped(undoStack, operation)
    /\ UNCHANGED redoStack

recordOperation(operation) ==
    /\ undoStack' = pushCapped(undoStack, operation)
    /\ redoStack' = <<>>

\* ----------------------------------------------------------------- history
\* hist keeps the last four calls, oldest first; hist[1] is at first the
\* construction of the hook.
Entry(call, args, accepted, ts, us, rs) ==
    [call |-> call, args |-> args, accepted |-> accepted,
     todos |-> ts, undoStack |-> us, redoStack |-> rs]

Log(call, args, accepted) ==
    LET e == Entry(call, args, accepted, todos', undoStack', redoStack')
        h == Append(hist, e)
    IN  hist' = IF Len(h) > 4 THEN Tail(h) ELSE h

\* a call that returns early: no state of the hook changes
Rejected(call, args) ==
    /\ UNCHANGED <<todos, undoStack, redoStack, editingTodoId, nextId>>
    /\ Log(call, args, FALSE)

\* the state of useTodosWithDB for a build with or without the credentials of
\* the remote store; the remote table starts empty
\* the two callers of TodoDB.saveAll
Savers == {"autoSync", "syncToDatabase"}

\* a saveAll call that has returned this value, or none yet
Returned(value, flatRecords, overlapped) ==
    [pc |-> "returned", value |-> value, flatRecords |-> flatRecords,
     overlapped |-> overlapped]

Persistence(configured, isDevMode) ==
    [configured |-> configured, isDevMode |-> isDevMode, autoSync |-> configured,
     isLoading |-> FALSE, isSynced |-> FALSE,
     table |-> <<>>,      \* the rows of the remote table
     fetched |-> <<>>,    \* what the last fetchAll returned
     saved |-> FALSE,     \* what the last saveAll returned
     threw |-> FALSE,     \* the last fetchAll or saveAll threw to its caller
     saves |-> [who \in Savers |-> Returned(FALSE, <<>>, FALSE)]]
                          \* the saveAll call of each caller, step by step

\* the state useTodos() constructs
HookConstructed ==
    /\ todos = initialTodos
    /\ undoStack = <<>>
    /\ redoStack = <<>>
    /\ editingTodoId = NULL
    /\ nextId = 0
    /\ hist = << Entry("useTodos", <<>>, TRUE, initialTodos, <<>>, <<>>) >>

\* the hook in a build without the credentials of the remote store
Constructed ==
    /\ HookConstructed
    /\ db = Persistence(FALSE, FALSE)

\* ----------------------------------------------------------------- actions
\* faulty variant of canToggle: only the direct children are looked at
canToggleShallow(oldTodo) ==
    \A i \in 1..Len(oldTodo.children) : oldTodo.children[i].completed

canToggle(oldTodo) ==
    Len(oldTodo.children) = 0 \/ isAllChildrenCompleted(oldTodo)

AddTodo(title, parentId) ==
    LET newTodo  == [id |-> Uuid(nextId), title |-> title, completed |-> FALSE,
                     expanded |-> TRUE, endDate |-> "none", createdAt |-> "date",
                     children |-> <<>>]
        newTodos == addTodoToTree(todos, parentId, newTodo)
    IN  /\ nextId < MaxNewTodos
        /\ recordOperation([type |-> "add", todo |-> newTodo, parentId |-> parentId])
        /\ editingTodoId' = IF title = "" THEN newTodo.id ELSE editingTodoId
        /\ todos' = sortTodos(newTodos)
        /\ nextId' = nextId + 1
        /\ Log("addTodo", <<title, parentId>>, TRUE)

\* faulty variant of ToggleTodo: the updated tree is not sorted
ToggleTodoUnsorted(id) ==
    LET found == findTodoById(todos, id) IN
    IF found = <<>> THEN Rejected("toggleTodo", <<id>>)
    ELSE LET oldTodo      == found[1]
             newCompleted == ~oldTodo.completed
             newEndDate   == IF newCompleted THEN "date" ELSE "none"
         IN  IF ~canToggle(oldTodo) THEN Rejected("toggleTodo", <<id>>)
             ELSE /\ recordOperation([type |-> "toggleCompletion", id |-> oldTodo.id,
                                      oldCompleted |-> oldTodo.completed,
                                      oldEndDate |-> oldTodo.endDate])
                  /\ todos' = updateTodoInTree(todos, id,
                                  [kind |-> "completion", completed |-> newCompleted,
                                   endDate |-> newEndDate])
                  /\ UNCHANGED <<editingTodoId, nextId>>
                  /\ Log("toggleTodo", <<id>>, TRUE)

ToggleTodo(id) ==
    LET found == findTodoById(todos, id) IN
    IF found = <<>> THEN Rejected("toggleTodo", <<id>>)
    ELSE LET oldTodo      == found[1]
             newCompleted == ~oldTodo.completed
             newEndDate   == IF newCompleted THEN "date" ELSE "none"
         IN  IF ~canToggle(oldTodo) THEN Rejected("toggleTodo", <<id>>)
             ELSE /\ recordOperation([type |-> "toggleCompletion", id |-> oldTodo.id,
                                      oldCompleted |-> oldTodo.completed,
                                      oldEndDate |-> oldTodo.endDate])
                  /\ todos' = sortTodos(updateTodoInTree(todos, id,
                                  [kind |-> "completion", completed |-> newCompleted,
                                   endDate |-> newEndDate]))
                  /\ UNCHANGED <<editingTodoId, nextId>>
                  /\ Log("toggleTodo", <<id>>, TRUE)

DeleteTodo(id) ==
    LET r == findTodoAndParentById(todos, id, NULL, todos) IN
    IF r.todo = <<>> THEN Rejected("deleteTodo", <<id>>)
    ELSE /\ recordOperation([type |-> "delete", todo |-> r.todo,
                             parentId |-> r.parentId, previousIndex |-> r.index])
         /\ todos' = sortTodos(removeTodoFromTree(todos, id))
         /\ UNCHANGED <<editingTodoId, nextId>>
         /\ Log("deleteTodo", <<id>>, TRUE)

UpdateTodo(id, newTitle) ==
    LET found == findTodoById(todos, id) IN
    IF found = <<>> THEN Rejected("updateTodo", <<id, newTitle>>)
    ELSE LET oldTodo == found[1]
             newTodo == [oldTodo EXCEPT !.title = newTitle]
         IN  /\ recordOperation([type |-> "update", id |-> oldTodo.id,
                                 oldTodo |-> oldTodo, newTodo |-> newTodo])
             /\ todos' = sortTodos(updateTodoInTree(todos, id,
                             [kind |-> "title", title |-> newTitle]))
             /\ UNCHANGED <<editingTodoId, nextId>>
             /\ Log("updateTodo", <<id, newTitle>>, TRUE)

ToggleExpanded(id) ==
    LET found == findTodoById(todos, id) IN
    IF found = <<>> THEN Rejected("toggleExpanded", <<id>>)
    ELSE /\ recordOperation([type |-> "toggleExpansion", id |-> found[1].id,
                             oldExpanded |-> found[1].expanded])
         /\ todos' = updateTodoInTree(todos, id, [kind |-> "flip"])
         /\ UNCHANGED <<editingTodoId, nextId>>
         /\ Log("toggleExpanded", <<id>>, TRUE)

\* faulty variant of insideCompleted: the guard is missing
insideNeverRefused(position, targetTodo, draggedTodo) ==
    FALSE

\* "Prevent dropping uncompleted task directly inside a completed task"
insideCompleted(position, targetTodo, draggedTodo) ==
    position = "inside" /\ targetTodo.completed /\ ~draggedTodo.completed

\* faulty variant of underCompletedParent: the guard is missing
parentNeverRefused(targetParent, draggedTodo) ==
    FALSE

\* "Prevent dropping uncompleted task as a sibling of a task whose parent is
\* completed"; targetParent is an optional Todo
underCompletedParent(targetParent, draggedTodo) ==
    targetParent # <<>> /\ targetParent[1].completed /\ ~draggedTodo.completed

\* faulty variant of rootDrop: the dragged node becomes the first root node
rootDropFirst(todosWithoutDragged, draggedTodo) ==
    <<draggedTodo>> \o todosWithoutDragged

\* "Dropping at the root level": [...todosWithoutDragged, draggedTodo]
rootDrop(todosWithoutDragged, draggedTodo) ==
    Append(todosWithoutDragged, draggedTodo)

MoveTodo(draggedId, targetId, position) ==
    LET found == findTodoById(todos, draggedId) IN
    IF found = <<>> THEN Rejected("moveTodo", <<draggedId, targetId, position>>)
    ELSE
    LET draggedTodo  == found[1]
        old          == findTodoAndParentById(todos, draggedId, NULL, todos)
        oldTargetId  == old.parentId
        oldPosition  == IF old.parent # <<>> /\ old.index # -1
                        THEN (IF old.index = 0 THEN "before" ELSE "after")
                        ELSE "after"
        todosWithoutDragged == removeTodoFromTree(todos, draggedId)
        targetResult == findTodoAndParentById(todos, targetId, NULL, todos)
        targetTodo   == targetResult.todo
        targetParent == targetResult.parent
        refused ==
            IF targetId = NULL THEN FALSE
            ELSE IF targetTodo = <<>> THEN TRUE
            ELSE IF insideCompleted(position, targetTodo[1], draggedTodo) THEN TRUE
            ELSE IF underCompletedParent(targetParent, draggedTodo) THEN TRUE
            ELSE FALSE
        finalTodos ==
            IF targetId = NULL THEN rootDrop(todosWithoutDragged, draggedTodo)
            ELSE insertTodo(todosWithoutDragged, targetId, draggedTodo, position)
    IN  IF refused THEN Rejected("moveTodo", <<draggedId, targetId, position>>)
        ELSE /\ recordOperation([type |-> "move", draggedId |-> draggedId,
                                 oldTargetId |-> oldTargetId, oldPosition |-> oldPosition,
                                 newTargetId |-> targetId, newPosition |-> position])
             /\ todos' = finalTodos
             /\ UNCHANGED <<editingTodoId, nextId>>
             /\ Log("moveTodo", <<draggedId, targetId, position>>, TRUE)

RemoveTodoIfEmpty(id, currentTitle) ==
    IF Trim(currentTitle) = ""
    THEN /\ recordOperation([type |-> "delete", todoId |-> id, todo |-> <<>>,
                             parentId |-> NULL])
         /\ todos' = removeTodoFromTree(todos, id)
         /\ editingTodoId' = NULL
         /\ UNCHANGED nextId
         /\ Log("removeTodoIfEmpty", <<id, currentTitle>>, TRUE)
    ELSE /\ editingTodoId' = NULL
         /\ UNCHANGED <<todos, undoStack, redoStack, nextId>>
         /\ Log("removeTodoIfEmpty", <<id, currentTitle>>, FALSE)

\* faulty variant of Undo: the undone operation replaces the redo stack
UndoClearingRedo ==
    IF Len(undoStack) = 0 THEN Rejected("undo", <<>>)
    ELSE LET lastOperation == undoStack[Len(undoStack)]
             nextTodos     == applyOperation(todos, lastOperation, FALSE)
         IN  /\ undoStack' = SubSeq(undoStack, 1, Len(undoStack) - 1)
             /\ todos' = sortTodos(nextTodos)
             /\ redoStack' = <<lastOperation>>
             /\ UNCHANGED <<editingTodoId, nextId>>
             /\ Log("undo", <<>>, TRUE)

Undo ==
    IF Len(undoStack) = 0 THEN Rejected("undo", <<>>)
    ELSE LET lastOperation == undoStack[Len(undoStack)]
             nextTodos     == applyOperation(todos, lastOperation, FALSE)
         IN  /\ undoStack' = SubSeq(undoStack, 1, Len(undoStack) - 1)
             /\ todos' = sortTodos(nextTodos)
             /\ redoStack' = Append(redoStack, lastOperation)
             /\ UNCHANGED <<editingTodoId, nextId>>
             /\ Log("undo", <<>>, TRUE)

Redo ==
    IF Len(redoStack) = 0 THEN Rejected("redo", <<>>)
    ELSE LET nextOperation == redoStack[Len(redoStack)]
             nextTodos     == applyOperation(todos, nextOperation, TRUE)
         IN  /\ redoStack' = SubSeq(redoStack, 1, Len(redoStack) - 1)
             /\ todos' = sortTodos(nextTodos)
             /\ undoStack' = Append(undoStack, nextOperation)
             /\ UNCHANGED <<editingTodoId, nextId>>
             /\ Log("redo", <<>>, TRUE)

\* One call of the undo callback that a render created. The callback reads
\* the undoStack and the todos of its render; setUndoStack and setRedoStack
\* are given updater functions, which run on the queued state, and setTodos is
\* given a value.
undoCall(render, queued) ==
    IF Len(render.undoStack) = 0 THEN queued
    ELSE LET lastOperation == render.undoStack[Len(render.undoStack)]
             nextTodos     == applyOperation(render.todos, lastOperation, FALSE)
         IN  [todos     |-> sortTodos(nextTodos),
              undoStack |-> SubSeq(queued.undoStack, 1, Len(queued.undoStack) - 1),
              redoStack |-> Append(queued.redoStack, lastOperation)]

\* undo() called twice before the hook renders again: both calls run the
\* callback of the same render, then the queued updates are published
UndoTwice ==
    LET render    == [todos |-> todos, undoStack |-> undoStack, redoStack |-> redoStack]
        published == undoCall(render, undoCall(render, render))
    IN  /\ todos' = published.todos
        /\ undoStack' = published.undoStack
        /\ redoStack' = published.redoStack
        /\ UNCHANGED <<editingTodoId, nextId>>
        /\ Log("undoTwice", <<>>, Len(undoStack) > 0)

\* faulty variant of canUndo: the flag follows the redo stack
canUndoFromRedo ==
    Len(redoStack) > 0

\* the derived queries of the hook's return value
canUndo ==
    Len(undoStack) > 0

canRedo ==
    Len(redoStack) > 0

\* ------------------------------------------------------------- persistence
\* One request to the remote store answers, answers with an error object, or
\* makes the client throw.
Outcomes == {"ok", "error", "throw"}

\* what an async function hands to its caller: a value, or an exception
Value(v) == [threw |-> FALSE, value |-> v]
Thrown == [threw |-> TRUE, value |-> <<>>]

\* createdAt.toISOString() throws for a createdAt that is a string
RECURSIVE treeToFlatThrows(_)
treeToFlatThrows(items) ==
    \E i \in 1..Len(items) :
        items[i].createdAt # "date" \/ treeToFlatThrows(items[i].children)

\* faulty variant of flatFrom: the records of the children carry no parent
RECURSIVE flatFromUnparented(_, _, _)
flatFromUnparented(items, i, parentId) ==
    IF i > Len(items) THEN <<>>
    ELSE LET item == items[i]
             dbRecord == [id |-> item.id, title |-> item.title,
                          completed |-> item.completed, expanded |-> item.expanded,
                          endDate |-> item.endDate, parent_id |-> parentId,
                          created_at |-> "iso", order_index |-> i - 1]
         IN  <<dbRecord>>
                 \o (IF Len(item.children) > 0
                     THEN flatFromUnparented(item.children, 1, NULL) ELSE <<>>)
                 \o flatFromUnparented(items, i + 1, parentId)

\* DatabaseFramework.treeToFlat: a record per node, parents before children
RECURSIVE flatFrom(_, _, _)
flatFrom(items, i, parentId) ==
    IF i > Len(items) THEN <<>>
    ELSE LET item == items[i]
             dbRecord == [id |-> item.id, title |-> item.title,
                          completed |-> item.completed, expanded |-> item.expanded,
                          endDate |-> item.endDate, parent_id |-> parentId,
                          created_at |-> "iso", order_index |-> i - 1]
         IN  <<dbRecord>>
                 \o (IF Len(item.children) > 0
                     THEN flatFrom(item.children, 1, item.id) ELSE <<>>)
                 \o flatFrom(items, i + 1, parentId)

treeToFlat(items, parentId) ==
    flatFrom(items, 1, parentId)

\* itemMap.get(id): the item of the last record with the id (Map.set overwrites)
itemOf(records, id) ==
    LET at == {i \in 1..Len(records) : records[i].id = id}
        r  == records[CHOOSE i \in at : \A j \in at : j <= i]
    IN  [id |-> r.id, title |-> r.title, completed |-> r.completed,
         expanded |-> r.expanded, endDate |-> r.endDate, createdAt |-> "date",
         children |-> <<>>]

\* records.find(r => r.id === id)?.order_index || 0
orderOf(records, id) ==
    LET at == {i \in 1..Len(records) : records[i].id = id} IN
    IF at = {} THEN 0
    ELSE records[CHOOSE i \in at : \A j \in at : i <= j].order_index

\* items.sort((a, b) => order(a) - order(b)): a stable sort
RECURSIVE sortByOrder(_, _)
sortByOrder(records, items) ==
    IF items = <<>> THEN <<>>
    ELSE LET n      == Len(items)
             x      == items[n]
             sorted == sortByOrder(records, SubSeq(items, 1, n - 1))
             before == Cardinality({k \in 1..Len(sorted) :
                           orderOf(records, sorted[k].id) <= orderOf(records, x.id)})
         IN  SubSeq(sorted, 1, before) \o <<x>> \o SubSeq(sorted, before + 1, Len(sorted))

\* the item of an id with the items pushed to its children, in order
RECURSIVE linked(_, _)
linked(records, id) ==
    LET under == SelectSeq(records, LAMBDA r : r.parent_id = id) IN
    [itemOf(records, id) EXCEPT !.children =
        sortByOrder(records, [k \in 1..Len(under) |-> linked(records, under[k].id)])]

\* DatabaseFramework.flatToTree
flatToTree(records) ==
    LET roots == SelectSeq(records, LAMBDA r : r.parent_id = NULL) IN
    sortByOrder(records, [k \in 1..Len(roots) |-> linked(records, roots[k].id)])

\* the request body as the store keeps it: a Date travels as its ISO string
wire(records) ==
    [k \in 1..Len(records) |->
        [records[k] EXCEPT !.endDate = IF records[k].endDate = "date" THEN "iso"
                                       ELSE records[k].endDate]]

\* id is the primary key of the table: an insert of a row whose id is taken,
\* or of two rows with one id, is answered with an error
insertAllowed(table, records) ==
    /\ \A i, j \in 1..Len(records) : records[i].id = records[j].id => i = j
    /\ \A i \in 1..Len(records), j \in 1..Len(table) : records[i].id # table[j].id

\* select('*').order('order_index'): rows with equal order_index come in an
\* order the store chooses, here the table's or its reverse
RECURSIVE byOrderIndex(_)
byOrderIndex(rows) ==
    IF rows = <<>> THEN <<>>
    ELSE LET n      == Len(rows)
             x      == rows[n]
             sorted == byOrderIndex(SubSeq(rows, 1, n - 1))
             before == Cardinality({k \in 1..Len(sorted) :
                           sorted[k].order_index <= x.order_index})
         IN  SubSeq(sorted, 1, before) \o <<x>> \o SubSeq(sorted, before + 1, Len(sorted))

selectRows(table, ties) ==
    IF ties = "kept" THEN byOrderIndex(table)
    ELSE byOrderIndex([k \in 1..Len(table) |-> table[Len(table) + 1 - k]])

\* DatabaseFramework.ensureSchema: the probe's error is logged, its exception
\* is caught
ensureSchema(isDevMode, configured, probe) ==
    IF ~isDevMode \/ ~configured THEN Value(<<>>)
    ELSE IF probe = "throw" THEN Value(<<>>)
    ELSE Value(<<>>)

\* DatabaseFramework.fetchAll
fetchAll(d, probe, select, ties) ==
    IF ensureSchema(d.isDevMode, d.configured, probe).threw THEN Thrown
    ELSE IF ~d.configured THEN Value(<<>>)
    ELSE IF select = "throw" THEN Value(<<>>)
    ELSE IF select = "error" THEN Value(<<>>)
    ELSE Value(flatToTree(selectRows(d.table, ties)))

\* DatabaseFramework.saveAll: the value handed to the caller and the table
\* the requests leave
saveAll(d, items, delete, insert) ==
    IF ~d.configured THEN [threw |-> FALSE, value |-> FALSE, table |-> d.table]
    ELSE IF treeToFlatThrows(items)
         THEN [threw |-> FALSE, value |-> FALSE, table |-> d.table]
    ELSE LET flatRecords == treeToFlat(items, NULL)
             cleared     == IF delete = "ok" THEN <<>> ELSE d.table
         IN  IF delete = "throw"
             THEN [threw |-> FALSE, value |-> FALSE, table |-> d.table]
             ELSE IF Len(flatRecords) = 0
                  THEN [threw |-> FALSE, value |-> TRUE, table |-> cleared]
             ELSE IF insert = "ok"
                  THEN [threw |-> FALSE, value |-> TRUE,
                        table |-> cleared \o wire(flatRecords)]
             ELSE [threw |-> FALSE, value |-> FALSE, table |-> cleared]

\* what the caller does with the value of saveAll: the interval callback
\* sets isSynced on success only, syncToDatabase sets it to the value
synced(d, who, value) ==
    IF who = "autoSync" THEN (IF value THEN TRUE ELSE d.isSynced) ELSE value

\* saveAll(items) from its call to the answer to its delete request: the tree
\* is flattened, the delete is sent and answered, and the call goes on to the
\* insert request unless it returns here
saveAllBegin(d, who, items, delete) ==
    LET other      == CHOOSE w \in Savers : w # who
        overlapped == d.saves[other].pc = "deleted"
        joined     == [d EXCEPT !.saves[other].overlapped = @ \/ overlapped]
    IN  IF ~d.configured \/ treeToFlatThrows(items) \/ delete = "throw"
        THEN [joined EXCEPT !.saves[who] = Returned(FALSE, <<>>, overlapped),
                            !.isSynced = synced(d, who, FALSE)]
        ELSE LET flatRecords == treeToFlat(items, NULL)
                 cleared     == IF delete = "ok" THEN <<>> ELSE d.table
             IN  IF Len(flatRecords) = 0
                 THEN [joined EXCEPT !.table = cleared,
                                     !.saves[who] = Returned(TRUE, <<>>, overlapped),
                                     !.isSynced = synced(d, who, TRUE)]
                 ELSE [joined EXCEPT !.table = cleared,
                                     !.saves[who] = [pc |-> "deleted", value |-> FALSE,
                                                     flatRecords |-> flatRecords,
                                                     overlapped |-> overlapped]]

\* saveAll from the answer to its insert request to its return
saveAllEnd(d, who, insert) ==
    LET call == d.saves[who] IN
    IF insert = "ok"
    THEN [d EXCEPT !.table = d.table \o wire(call.flatRecords),
                   !.saves[who] = Returned(TRUE, call.flatRecords, call.overlapped),
                   !.isSynced = synced(d, who, TRUE)]
    ELSE [d EXCEPT !.saves[who] = Returned(FALSE, call.flatRecords, call.overlapped),
                   !.isSynced = synced(d, who, FALSE)]

\* the outcomes the store can give to the requests of saveAll(items)
saveOutcomes(d, items) ==
    {o \in Outcomes \X Outcomes :
        o[2] = "ok" =>
            (treeToFlatThrows(items)
                \/ insertAllowed(IF o[1] = "ok" THEN <<>> ELSE d.table,
                                 treeToFlat(items, NULL)))}

\* a persistence step never touches the state of useTodos
LocalStateKept(call, args, ran) ==
    /\ UNCHANGED <<todos, undoStack, redoStack, editingTodoId, nextId>>
    /\ Log(call, args, ran)

\* useEffect "Load data from database on mount"
LoadOnMount(probe, select, ties) ==
    IF ~db.autoSync
    THEN UNCHANGED db /\ LocalStateKept("loadOnMount", <<probe, select, ties>>, FALSE)
    ELSE LET r == fetchAll(db, probe, select, ties) IN
         /\ db' = [db EXCEPT !.isLoading = FALSE,
                             !.isSynced = IF ~r.threw /\ Len(r.value) > 0 THEN TRUE
                                          ELSE db.isSynced,
                             !.fetched = r.value, !.threw = r.threw]
         /\ LocalStateKept("loadOnMount", <<probe, select, ties>>, TRUE)

\* useEffect "Auto-sync to database periodically": one tick of the interval
AutoSync(delete, insert) ==
    IF ~db.autoSync
    THEN UNCHANGED db /\ LocalStateKept("autoSync", <<delete, insert>>, FALSE)
    ELSE LET r == saveAll(db, todos, delete, insert) IN
         /\ db' = [db EXCEPT !.isSynced = IF r.threw THEN FALSE
                                          ELSE IF r.value THEN TRUE ELSE db.isSynced,
                             !.table = r.table, !.saved = r.value, !.threw = r.threw]
         /\ LocalStateKept("autoSync", <<delete, insert>>, TRUE)

SyncToDatabase(delete, insert) ==
    IF ~db.autoSync
    THEN UNCHANGED db /\ LocalStateKept("syncToDatabase", <<delete, insert>>, FALSE)
    ELSE LET r == saveAll(db, todos, delete, insert) IN
         /\ db' = [db EXCEPT !.isLoading = FALSE,
                             !.isSynced = IF r.threw THEN FALSE ELSE r.value,
                             !.table = r.table, !.saved = r.value, !.threw = r.threw]
         /\ LocalStateKept("syncToDatabase", <<delete, insert>>, TRUE)

LoadFromDatabase(probe, select, ties) ==
    IF ~db.autoSync
    THEN UNCHANGED db /\ LocalStateKept("loadFromDatabase", <<probe, select, ties>>, FALSE)
    ELSE LET r == fetchAll(db, probe, select, ties) IN
         /\ db' = [db EXCEPT !.isLoading = FALSE, !.isSynced = ~r.threw,
                             !.fetched = r.value, !.threw = r.threw]
         /\ LocalStateKept("loadFromDatabase", <<probe, select, ties>>, TRUE)

\* A save in steps, so that the saves of the two callers can overlap: the
\* interval callback and syncToDatabase each await saveAll, which awaits the
\* delete request and then the insert request.
SaveBegin(who, delete) ==
    /\ db.autoSync
    /\ db.saves[who].pc = "returned"
    /\ db' = saveAllBegin(db, who, todos, delete)
    /\ LocalStateKept("saveBegin", <<who, delete>>, TRUE)

SaveEnd(who, insert) ==
    /\ db.saves[who].pc = "deleted"
    /\ insert = "ok" => insertAllowed(db.table, db.saves[who].flatRecords)
    /\ db' = saveAllEnd(db, who, insert)
    /\ LocalStateKept("saveEnd", <<who, insert>>, TRUE)

EnableAutoSync ==
    /\ db' = [db EXCEPT !.autoSync = IF db.configured THEN TRUE ELSE db.autoSync]
    /\ LocalStateKept("enableAutoSync", <<>>, db.configured)

DisableAutoSync ==
    /\ db' = [db EXCEPT !.autoSync = FALSE, !.isSynced = FALSE]
    /\ LocalStateKept("disableAutoSync", <<>>, TRUE)

\* ------------------------------------------------------------- environment
\* The user interface calls the hook's functions one at a time; every call
\* spends one unit of the budget.
Tick == budget > 0 /\ budget' = budget - 1 /\ UNCHANGED db

\* a step of the persistence layer spends one unit as well
Step == budget > 0 /\ budget' = budget - 1

\* ids the calls are made with: a parent with one child ("6"), that child
\* ("7"), a completed root node ("8"), a stale id, and the ids uuidv4() has
\* handed out
CreatedIds == {Uuid(n) : n \in 0..(nextId - 1)}
FocusIds == {"6", "7", "8"}
CallIds == FocusIds \cup {MissingId} \cup CreatedIds
AddTitles == {"", "x"}
EditCalls == {<<id, " ">> : id \in CallIds} \cup {<<"7", "x">>}
MoveDragged == {"6", "7"} \cup CreatedIds
MoveTargets == {NULL, "7", "8"}

CallAddTodo ==
    Tick /\ \E title \in AddTitles, parentId \in {NULL} \cup CallIds : AddTodo(title, parentId)
CallToggleTodo ==
    Tick /\ \E id \in CallIds : ToggleTodo(id)
CallDeleteTodo ==
    Tick /\ \E id \in CallIds : DeleteTodo(id)
CallUpdateTodo ==
    Tick /\ \E id \in CallIds : UpdateTodo(id, "y")
CallToggleExpanded ==
    Tick /\ \E id \in CallIds : ToggleExpanded(id)
CallMoveTodo ==
    Tick /\ \E draggedId \in MoveDragged, targetId \in MoveTargets, position \in Positions :
               MoveTodo(draggedId, targetId, position)
CallRemoveTodoIfEmpty ==
    Tick /\ \E c \in EditCalls : RemoveTodoIfEmpty(c[1], c[2])
CallUndo == Tick /\ Undo
CallRedo == Tick /\ Redo

Next ==
    \/ CallAddTodo
    \/ CallToggleTodo
    \/ CallDeleteTodo
    \/ CallUpdateTodo
    \/ CallToggleExpanded
    \/ CallMoveTodo
    \/ CallRemoveTodoIfEmpty
    \/ CallUndo
    \/ CallRedo

Init == Constructed /\ budget = MaxSteps

Spec == Init /\ [][Next]_vars

\* Completion toggles over the subtree of "1" (two levels of children), with
\* undo and redo.
ToggleIds == {"1", "2", "3", "4", "5"}

ToggleCall == Tick /\ \E id \in ToggleIds : ToggleTodo(id)

NextToggle == ToggleCall \/ CallUndo \/ CallRedo

InitToggle == Constructed /\ budget = MaxToggleSteps

SpecToggle == InitToggle /\ [][NextToggle]_vars

\* Deleting and completing in the subtree of "6", with undo and redo.
ReplayIds == {"6", "7"}

ReplayDelete == Tick /\ \E id \in ReplayIds : DeleteTodo(id)
ReplayToggle == Tick /\ \E id \in ReplayIds : ToggleTodo(id)

NextReplay == ReplayDelete \/ ReplayToggle \/ CallUndo \/ CallRedo

InitReplay == Constructed /\ budget = MaxReplaySteps

SpecReplay == InitReplay /\ [][NextReplay]_vars

\* Every kind of mutation with a few inputs each, some accepted and some
\* refused ("6" cannot be completed before "7" is, "7" cannot be moved inside
\* the completed "8"), with undo and redo.
RecordAdd == Tick /\ \E parentId \in {NULL, "6"} : AddTodo("", parentId)
RecordToggle == Tick /\ \E id \in {"6", "7"} : ToggleTodo(id)
RecordDelete == Tick /\ DeleteTodo("7")
RecordUpdate == Tick /\ UpdateTodo("6", "y")
RecordExpand == Tick /\ ToggleExpanded("6")
RecordMove == Tick /\ \E position \in {"before", "inside"} : MoveTodo("7", "8", position)

NextRecord ==
    \/ RecordAdd
    \/ RecordToggle
    \/ RecordDelete
    \/ RecordUpdate
    \/ RecordExpand
    \/ RecordMove
    \/ CallUndo
    \/ CallRedo

InitRecord == Constructed /\ budget = MaxRecordSteps

SpecRecord == InitRecord /\ [][NextRecord]_vars

\* Drag and drop around the subtree of "6": an incomplete leaf from another
\* subtree ("2"), the parent "6" and its child "7" are dragged onto "7", onto
\* the completed root node "8" or to the root level, while "6" and "7" are
\* completed and reopened; with undo and redo.
MoveIds == {"2", "6", "7"}
MoveOnto == {NULL, "7", "8"}

MoveCall ==
    Tick /\ \E draggedId \in MoveIds, targetId \in MoveOnto, position \in Positions :
               MoveTodo(draggedId, targetId, position)
MoveToggle == Tick /\ \E id \in {"6", "7"} : ToggleTodo(id)

NextMove == MoveCall \/ MoveToggle \/ CallUndo \/ CallRedo

InitMove == Constructed /\ budget = MaxMoveSteps

SpecMove == InitMove /\ [][NextMove]_vars

\* Editing titles: nodes are created with an empty title and the edit is
\* committed with an empty, a blank or a non-blank title.
EditTitles == {"", " ", "x"}
EditAdd == Tick /\ \E parentId \in {NULL, "6"} : AddTodo("", parentId)
EditCommit ==
    Tick /\ \E id \in {"7"} \cup CreatedIds, title \in EditTitles :
               RemoveTodoIfEmpty(id, title)

NextEdit == EditAdd \/ EditCommit \/ CallUndo \/ CallRedo

InitEdit == Constructed /\ budget = MaxEditSteps

SpecEdit == InitEdit /\ [][NextEdit]_vars

\* The two pure helpers on arbitrary forests: three root nodes, the first with
\* two children and one grandchild, every combination of completed flags.
Flags == [{"a", "a1", "a11", "a2", "b", "c"} -> BOOLEAN]

Forest(f) ==
    << [Leaf("a", "a", f["a"], TRUE, "none") EXCEPT !.children =
           << [Leaf("a1", "a1", f["a1"], TRUE, "none") EXCEPT !.children =
                  << Leaf("a11", "a11", f["a11"], FALSE, "none") >>],
              Leaf("a2", "a2", f["a2"], FALSE, "none") >>],
       Leaf("b", "b", f["b"], FALSE, "none"),
       Leaf("c", "c", f["c"], FALSE, "none") >>

\* sortTodos applied to the tree, as every handler but moveTodo does
SortCall ==
    /\ Tick
    /\ todos' = sortTodos(todos)
    /\ UNCHANGED <<undoStack, redoStack, editingTodoId, nextId>>
    /\ Log("sortTodos", <<>>, TRUE)

\* isAllChildrenCompleted(todo) asked for a node of the tree; the answer is
\* logged as the outcome of the call
AskCall ==
    /\ Tick
    /\ UNCHANGED <<todos, undoStack, redoStack, editingTodoId, nextId>>
    /\ \E id \in {"a", "a1", "b"} :
          Log("isAllChildrenCompleted", <<id>>,
              isAllChildrenCompleted(findTodoById(todos, id)[1]))

\* the forest flattened by treeToFlat and rebuilt by flatToTree
RoundTripCall ==
    /\ Tick
    /\ todos' = flatToTree(treeToFlat(todos, NULL))
    /\ UNCHANGED <<undoStack, redoStack, editingTodoId, nextId>>
    /\ Log("roundTrip", <<>>, TRUE)

NextPure == SortCall \/ AskCall \/ RoundTripCall

InitPure ==
    /\ \E f \in Flags :
          /\ todos = Forest(f)
          /\ hist = << Entry("useTodos", <<>>, TRUE, Forest(f), <<>>, <<>>) >>
    /\ undoStack = <<>>
    /\ redoStack = <<>>
    /\ editingTodoId = NULL
    /\ nextId = 0
    /\ budget = MaxPureSteps
    /\ db = Persistence(FALSE, FALSE)

SpecPure == InitPure /\ [][NextPure]_vars

\* Undo issued twice within one render, after renames, completions and
\* expansions in the subtree of "6".
BurstToggle == Tick /\ \E id \in {"6", "7"} : ToggleTodo(id)
BurstExpand == Tick /\ ToggleExpanded("6")
BurstUpdate == Tick /\ UpdateTodo("7", "y")
BurstUndo == Tick /\ UndoTwice

NextBurst ==
    \/ BurstToggle
    \/ BurstExpand
    \/ BurstUpdate
    \/ BurstUndo
    \/ CallUndo
    \/ CallRedo

InitBurst == Constructed /\ budget = MaxBurstSteps

SpecBurst == InitBurst /\ [][NextBurst]_vars

\* Overlapping saves: the interval callback and syncToDatabase save in
\* steps while root nodes are deleted and a node is added; the store answers
\* the delete or the client throws, and the store accepts the insert or
\* answers with an error.
OverlapDelete == Tick /\ Len(todos) > 0 /\ DeleteTodo(todos[1].id)
OverlapAdd == Tick /\ AddTodo("x", NULL)
OverlapBegin == Step /\ \E who \in Savers, delete \in {"ok", "throw"} : SaveBegin(who, delete)
OverlapEnd == Step /\ \E who \in Savers, insert \in {"ok", "error"} : SaveEnd(who, insert)

NextOverlap ==
    \/ OverlapDelete
    \/ OverlapAdd
    \/ OverlapBegin
    \/ OverlapEnd

InitOverlap ==
    /\ HookConstructed
    /\ db = Persistence(TRUE, FALSE)
    /\ budget = MaxOverlapSteps

SpecOverlap == InitOverlap /\ [][NextOverlap]_vars

\* Persistence around a changing tree: builds with and without the store's
\* credentials, every outcome of every request, and deletes and undos between
\* the loads and the saves.
FetchInputs == {"ok", "throw"} \X Outcomes \X {"kept", "reversed"}

SyncDelete == Tick /\ \E id \in {"6", "8"} : DeleteTodo(id)
SyncLoadOnMount == Step /\ \E i \in FetchInputs : LoadOnMount(i[1], i[2], i[3])
SyncAuto == Step /\ \E o \in saveOutcomes(db, todos) : AutoSync(o[1], o[2])
SyncManual == Step /\ \E o \in saveOutcomes(db, todos) : SyncToDatabase(o[1], o[2])
SyncLoad == Step /\ \E i \in FetchInputs : LoadFromDatabase(i[1], i[2], i[3])
SyncEnable == Step /\ EnableAutoSync
SyncDisable == Step /\ DisableAutoSync

NextSync ==
    \/ SyncDelete
    \/ CallUndo
    \/ SyncLoadOnMount
    \/ SyncAuto
    \/ SyncManual
    \/ SyncLoad
    \/ SyncEnable
    \/ SyncDisable

InitSync ==
    /\ HookConstructed
    /\ \E configured \in BOOLEAN, isDevMode \in BOOLEAN :
          db = Persistence(configured, isDevMode)
    /\ budget = MaxSyncSteps

SpecSync == InitSync /\ [][NextSync]_vars

\* A long session: the same node is expanded and collapsed, undone and
\* redone, without a limit on the number of calls.
HistoryToggle == ToggleExpanded("6") /\ UNCHANGED <<budget, db>>
HistoryUndo == Undo /\ UNCHANGED <<budget, db>>
HistoryRedo == Redo /\ UNCHANGED <<budget, db>>

NextHistory == HistoryToggle \/ HistoryUndo \/ HistoryRedo

InitHistory == Constructed /\ budget = 0

SpecHistory == InitHistory /\ [][NextHistory]_vars

\* ------------------------------------------------------ reading the history
Last == hist[Len(hist)]
Prev == hist[Len(hist) - 1]
Prev2 == hist[Len(hist) - 2]

Mutations ==
    {"addTodo", "deleteTodo", "updateTodo", "toggleTodo", "toggleExpanded", "moveTodo"}

\* the type of the operation a public mutation records
OpType(call) ==
    CASE call = "addTodo" -> "add"
      [] call = "deleteTodo" -> "delete"
      [] call = "updateTodo" -> "update"
      [] call = "toggleTodo" -> "toggleCompletion"
      [] call = "toggleExpanded" -> "toggleExpansion"
      [] call = "moveTodo" -> "move"
      [] OTHER -> "none"

\* the last call was an accepted public mutation
MutationDone == Len(hist) >= 2 /\ Last.call \in Mutations /\ Last.accepted

\* every node of a forest, parents before their children
RECURSIVE Nodes(_)
Nodes(ts) ==
    IF ts = <<>> THEN <<>>
    ELSE <<Head(ts)>> \o Nodes(Head(ts).children) \o Nodes(Tail(ts))

NodeSet(ts) == {Nodes(ts)[i] : i \in 1..Len(Nodes(ts))}
IdsOf(ts) == {n.id : n \in NodeSet(ts)}
Count(ts, id) == Cardinality({i \in 1..Len(Nodes(ts)) : Nodes(ts)[i].id = id})

\* the strict descendants of a node
Descendants(todo) == NodeSet(todo.children)
HasIncompleteDescendant(todo) == \E d \in Descendants(todo) : ~d.completed

\* a strict ancestor of the node with this id is completed
HasCompletedAncestor(ts, id) ==
    \E a \in NodeSet(ts) : a.completed /\ id \in IdsOf(a.children)

\* a forest with every date reduced to "present or absent": two trees with
\* the same Shape have the same nesting, sibling order, ids, titles, completed
\* and expanded flags, and agree on which nodes carry an endDate
RECURSIVE Shape(_)
Shape(ts) ==
    [i \in 1..Len(ts) |->
        [ts[i] EXCEPT !.endDate = (ts[i].endDate # "none"),
                      !.createdAt = TRUE,
                      !.children = Shape(ts[i].children)]]

\* no completed node precedes an incomplete sibling, at every level
RECURSIVE Ordered(_)
Ordered(ts) ==
    /\ \A i, j \in 1..Len(ts) : (i < j /\ ts[i].completed) => ts[j].completed
    /\ \A i \in 1..Len(ts) : Ordered(ts[i].children)

\* ------------------------------------------------------------------ claims

\* C1: undo() directly after one accepted public mutation restores the tree
\* to its value before the mutation (nesting, sibling order, per-node fields).
C1_UndoRestoresTree ==
    (Len(hist) >= 3 /\ Last.call = "undo" /\ Prev.call \in Mutations /\ Prev.accepted)
        => Shape(Last.todos) = Shape(Prev2.todos)

\* C2: mutation; undo(); redo() leaves the tree as it was directly after the
\* mutation.
C2_RedoRestoresTree ==
    (Len(hist) >= 3 /\ Last.call = "redo" /\ Prev.call = "undo"
        /\ Prev2.call \in Mutations /\ Prev2.accepted)
        => Shape(Last.todos) = Shape(Prev2.todos)

\* C3: the undo stack never holds more than MAX_HISTORY_SIZE operations, and
\* recording onto a full stack drops exactly the oldest entry, keeps the
\* others in order and appends the new operation.
C3_UndoStackBounded ==
    /\ Len(undoStack) <= MAX_HISTORY_SIZE
    /\ (MutationDone /\ Len(Prev.undoStack) = MAX_HISTORY_SIZE)
          => /\ Len(undoStack) = MAX_HISTORY_SIZE
             /\ SubSeq(undoStack, 1, MAX_HISTORY_SIZE - 1) = Tail(Prev.undoStack)
             /\ undoStack[MAX_HISTORY_SIZE].type = OpType(Last.call)
             /\ Last.call = "toggleExpanded" =>
                   /\ undoStack[MAX_HISTORY_SIZE].id = Last.args[1]
                   /\ undoStack[MAX_HISTORY_SIZE].oldExpanded
                          = findTodoById(Prev.todos, Last.args[1])[1].expanded

\* an operation was recorded onto a full stack
C3_Witness ==
    MutationDone /\ Len(Prev.undoStack) = MAX_HISTORY_SIZE

\* C4: after an accepted mutation other than undo/redo the redo stack is
\* empty, also when the mutation follows undo() calls.
C4_MutationClearsRedo ==
    MutationDone => redoStack = <<>>

\* a mutation was accepted right after an undo() that left operations on both
\* stacks
C4_Witness ==
    /\ MutationDone
    /\ Prev.call = "undo"
    /\ Len(Prev.redoStack) > 0
    /\ Len(Prev.undoStack) > 0

\* C5: no id occurs at two places of the forest.
C5_IdsUnique ==
    \A id \in IdsOf(todos) : Count(todos, id) = 1

\* C6: in every tree reached by addTodo, deleteTodo, moveTodo and toggleTodo
\* calls no completed node precedes an incomplete sibling, at any level.
C6_CompletedLast ==
    (hist[1].call = "useTodos"
        /\ \A i \in 2..Len(hist) :
              hist[i].call \in {"addTodo", "deleteTodo", "moveTodo", "toggleTodo"})
        => Ordered(todos)

\* C7: a moveTodo call whose dragged node exists leaves the multiset of node
\* ids of the forest as it was.
C7_MoveKeepsNodes ==
    (Len(hist) >= 2 /\ Last.call = "moveTodo" /\ Last.args[1] \in IdsOf(Prev.todos))
        => \A id \in IdsOf(Prev.todos) \cup IdsOf(Last.todos) :
              Count(Last.todos, id) = Count(Prev.todos, id)

\* the last call was toggleTodo on a node with an incomplete descendant
ToggleOfBlocked ==
    /\ Len(hist) >= 2
    /\ Last.call = "toggleTodo"
    /\ findTodoById(Prev.todos, Last.args[1]) # <<>>
    /\ HasIncompleteDescendant(findTodoById(Prev.todos, Last.args[1])[1])

\* C8: toggleTodo(id) on a node with an incomplete descendant is rejected:
\* the tree and both stacks stay as they were.
C8_ToggleRejected ==
    ToggleOfBlocked
        => /\ ~Last.accepted
           /\ Last.todos = Prev.todos
           /\ Last.undoStack = Prev.undoStack
           /\ Last.redoStack = Prev.redoStack

\* "1" is refused although both its children are completed: the incomplete
\* descendant lies one level deeper
C8_Witness ==
    /\ ToggleOfBlocked
    /\ Last.args[1] = "1"
    /\ LET node == findTodoById(Prev.todos, "1")[1] IN
       \A i \in 1..Len(node.children) : node.children[i].completed

\* C9: no call, undo and redo included, turns a node from incomplete to
\* completed while it has, in the resulting tree, an incomplete descendant.
C9_NoCompletionOverIncomplete ==
    Len(hist) >= 2
        => \A n \in NodeSet(Last.todos) :
              (n.completed /\ \E o \in NodeSet(Prev.todos) : o.id = n.id /\ ~o.completed)
                  => ~HasIncompleteDescendant(n)

\* C10: toggleTodo on a completed node with a completed strict ancestor is
\* rejected: the tree is unchanged and nothing is recorded.
C10_UncheckUnderCompletedRejected ==
    (Len(hist) >= 2 /\ Last.call = "toggleTodo"
        /\ findTodoById(Prev.todos, Last.args[1]) # <<>>
        /\ findTodoById(Prev.todos, Last.args[1])[1].completed
        /\ HasCompletedAncestor(Prev.todos, Last.args[1]))
        => /\ Last.todos = Prev.todos
           /\ Last.undoStack = Prev.undoStack
           /\ Last.redoStack = Prev.redoStack

\* the first node, in document order, that carries this id (optional)
NodeAt(ts, id) ==
    LET ns == Nodes(ts)
        at == {i \in 1..Len(ns) : ns[i].id = id}
    IN  IF at = {} THEN <<>>
        ELSE <<ns[CHOOSE i \in at : \A j \in at : i <= j]>>

\* the first node, in document order, with a child that carries this id
ParentAt(ts, id) ==
    LET ns == Nodes(ts)
        at == {i \in 1..Len(ns) :
                  \E k \in 1..Len(ns[i].children) : ns[i].children[k].id = id}
    IN  IF at = {} THEN <<>>
        ELSE <<ns[CHOOSE i \in at : \A j \in at : i <= j]>>

\* the last call left the tree and both stacks as they were
NothingChanged ==
    /\ Last.todos = Prev.todos
    /\ Last.undoStack = Prev.undoStack
    /\ Last.redoStack = Prev.redoStack

\* the last call was moveTodo with an incomplete dragged node and a target,
\* both in the tree
MoveOfIncomplete ==
    /\ Len(hist) >= 2
    /\ Last.call = "moveTodo"
    /\ NodeAt(Prev.todos, Last.args[1]) # <<>>
    /\ ~NodeAt(Prev.todos, Last.args[1])[1].completed
    /\ NodeAt(Prev.todos, Last.args[2]) # <<>>

\* C11: moveTodo(draggedId, targetId, 'inside') with a completed target and an
\* incomplete dragged node is rejected: tree and both stacks are unchanged.
C11_InsideCompletedRejected ==
    (MoveOfIncomplete /\ Last.args[3] = "inside"
        /\ NodeAt(Prev.todos, Last.args[2])[1].completed)
        => (~Last.accepted /\ NothingChanged)

\* the refused target is "7", completed by an earlier call, under its
\* incomplete parent
C11_Witness ==
    /\ MoveOfIncomplete
    /\ Last.args = <<"2", "7", "inside">>
    /\ NodeAt(Prev.todos, "7")[1].completed
    /\ ~ParentAt(Prev.todos, "7")[1].completed
    /\ Len(Prev.undoStack) > 0

\* C12: moveTodo with any position is rejected when the target's parent is
\* completed and the dragged node is not: tree and both stacks are unchanged.
C12_UnderCompletedParentRejected ==
    (MoveOfIncomplete
        /\ ParentAt(Prev.todos, Last.args[2]) # <<>>
        /\ ParentAt(Prev.todos, Last.args[2])[1].completed)
        => (~Last.accepted /\ NothingChanged)

\* "2" is dropped before "7", whose parent "6" is completed
C12_Witness ==
    /\ MoveOfIncomplete
    /\ Last.args = <<"2", "7", "before">>
    /\ ParentAt(Prev.todos, "7") # <<>>
    /\ ParentAt(Prev.todos, "7")[1].id = "6"
    /\ ParentAt(Prev.todos, "7")[1].completed

\* the last call was a public mutation that names an id the tree does not hold
CallOnMissingId ==
    /\ Len(hist) >= 2
    /\ LET ids == IdsOf(Prev.todos)
           a == Last.args
       IN  CASE Last.call = "addTodo" -> a[2] # NULL /\ a[2] \notin ids
             [] Last.call \in {"deleteTodo", "updateTodo", "toggleTodo",
                               "toggleExpanded", "removeTodoIfEmpty"} ->
                    a[1] \notin ids
             [] Last.call = "moveTodo" ->
                    a[1] \notin ids \/ (a[2] # NULL /\ a[2] \notin ids)
             [] OTHER -> FALSE

\* C13: a public mutation called with an id that is not in the tree leaves the
\* tree, the undo stack and the redo stack unchanged.
C13_MissingIdIsNoOp ==
    CallOnMissingId => NothingChanged

\* parent id and sibling index of a node, as findTodoAndParentById reports them
WhereIs(ts, id) ==
    LET r == findTodoAndParentById(ts, id, NULL, ts) IN <<r.parentId, r.index>>

\* the last two calls were an accepted moveTodo and the undo() that reverts it
MoveUndone ==
    /\ Len(hist) >= 3
    /\ Prev.call = "moveTodo" /\ Prev.accepted
    /\ Last.call = "undo" /\ Last.accepted

\* C14: after an accepted moveTodo(X, Y, 'before') with X # Y and Y outside X's
\* subtree, undo() returns X to its former parent and its former index.
C14_UndoMoveRestoresPosition ==
    (MoveUndone
        /\ Prev.args[3] = "before"
        /\ Prev.args[2] # NULL
        /\ Prev.args[1] # Prev.args[2]
        /\ Prev.args[2] \notin IdsOf(NodeAt(Prev2.todos, Prev.args[1])[1].children))
        => WhereIs(Last.todos, Prev.args[1]) = WhereIs(Prev2.todos, Prev.args[1])

\* the last two calls were an accepted deleteTodo and the undo() that reverts it
DeleteUndone ==
    /\ Len(hist) >= 3
    /\ Prev.call = "deleteTodo" /\ Prev.accepted
    /\ Last.call = "undo" /\ Last.accepted

\* C15: after deleteTodo(X) of a node with children, undo() puts X and all its
\* descendants back under the former parent at the former index and leaves
\* every other node, the former parent's expanded flag included, as it was.
C15_UndoDeleteRestoresSubtree ==
    (DeleteUndone /\ NodeAt(Prev2.todos, Prev.args[1])[1].children # <<>>)
        => Shape(Last.todos) = Shape(Prev2.todos)

\* the forest without the first node, in document order, that carries this id
RECURSIVE CutFirst(_, _)
CutFirst(ts, id) ==
    IF ts = <<>> THEN <<>>
    ELSE IF Head(ts).id = id THEN Tail(ts)
    ELSE IF id \in IdsOf(Head(ts).children)
         THEN <<[Head(ts) EXCEPT !.children = CutFirst(Head(ts).children, id)]>>
                  \o Tail(ts)
    ELSE <<Head(ts)>> \o CutFirst(Tail(ts), id)

\* the siblings among which the first node with this id stands
SiblingsAt(ts, id) ==
    IF \E i \in 1..Len(ts) : ts[i].id = id THEN ts
    ELSE ParentAt(ts, id)[1].children

\* zero-based index of the first node with this id among its siblings
IndexAt(ts, id) ==
    LET sibs == SiblingsAt(ts, id) IN
    (CHOOSE i \in 1..Len(sibs) :
        sibs[i].id = id /\ \A j \in 1..(i - 1) : sibs[j].id # id) - 1

\* id of the parent of the first node with this id, NULL at the root
ParentIdAt(ts, id) ==
    IF \E i \in 1..Len(ts) : ts[i].id = id THEN NULL
    ELSE ParentAt(ts, id)[1].id

\* C16: deleteTodo(id) of a node in the tree removes that node with its
\* descendants and nothing else, keeps the order of the remaining siblings at
\* every level, and records exactly one delete operation holding the removed
\* subtree, the former parent id and the former index.
C16_DeleteRemovesSubtreeOnly ==
    (Len(hist) >= 2 /\ Last.call = "deleteTodo" /\ Last.accepted)
        => LET id == Last.args[1] IN
           /\ Last.todos = CutFirst(Prev.todos, id)
           /\ Len(Last.undoStack) = Len(Prev.undoStack) + 1
           /\ SubSeq(Last.undoStack, 1, Len(Prev.undoStack)) = Prev.undoStack
           /\ Last.undoStack[Len(Last.undoStack)] =
                  [type |-> "delete", todo |-> NodeAt(Prev.todos, id),
                   parentId |-> ParentIdAt(Prev.todos, id),
                   previousIndex |-> IndexAt(Prev.todos, id)]

\* the operation an accepted undo() or redo() has just replayed
Replayed ==
    IF Last.call = "undo" THEN Prev.undoStack[Len(Prev.undoStack)]
    ELSE Prev.redoStack[Len(Prev.redoStack)]

\* the last call was an accepted undo() or redo() of a toggleCompletion
ToggleReplayed(call) ==
    /\ Len(hist) >= 2
    /\ Last.call = call /\ Last.accepted
    /\ Replayed.type = "toggleCompletion"

\* C17: an accepted toggleTodo(id) records the node's completed flag and
\* endDate; undo() of that operation sets both back to the recorded values, and
\* redo() of it sets completed to the negation of the recorded flag with an
\* endDate present exactly when completed is true.
C17_ToggleUndoRedo ==
    /\ (Len(hist) >= 2 /\ Last.call = "toggleTodo" /\ Last.accepted)
           => LET op == Last.undoStack[Len(Last.undoStack)]
                  n  == NodeAt(Prev.todos, Last.args[1])[1]
              IN  /\ op.type = "toggleCompletion" /\ op.id = Last.args[1]
                  /\ op.oldCompleted = n.completed
                  /\ op.oldEndDate = n.endDate
    /\ ToggleReplayed("undo")
           => \A n \in NodeSet(Last.todos) :
                  n.id = Replayed.id
                      => /\ n.completed = Replayed.oldCompleted
                         /\ n.endDate = Replayed.oldEndDate
    /\ ToggleReplayed("redo")
           => \A n \in NodeSet(Last.todos) :
                  n.id = Replayed.id
                      => /\ n.completed = ~Replayed.oldCompleted
                         /\ (n.endDate # "none") = n.completed

\* "6" with completed child "7": toggle 7, toggle 6, undo, undo, redo ends
\* with 7 completed and 6 incomplete
C17_Witness ==
    /\ Len(hist) >= 4
    /\ hist[Len(hist) - 3].call = "toggleTodo" /\ hist[Len(hist) - 3].accepted
    /\ hist[Len(hist) - 3].args = <<"6">>
    /\ Prev2.call = "undo" /\ Prev2.accepted
    /\ Prev.call = "undo" /\ Prev.accepted
    /\ ToggleReplayed("redo") /\ Replayed.id = "7"
    /\ NodeAt(Prev.todos, "7") # <<>> /\ ~NodeAt(Prev.todos, "7")[1].completed
    /\ NodeAt(Last.todos, "7")[1].completed
    /\ NodeAt(Last.todos, "7")[1].endDate # "none"
    /\ ~NodeAt(Last.todos, "6")[1].completed
    /\ NodeAt(Last.todos, "6")[1].endDate = "none"

\* the last three calls were this accepted mutation, undo() and redo()
UndoneAndRedone(call) ==
    /\ Len(hist) >= 4
    /\ Prev2.call = call /\ Prev2.accepted
    /\ Prev.call = "undo" /\ Prev.accepted
    /\ Last.call = "redo" /\ Last.accepted

\* the tree before the first of the last three calls
Before3 == hist[Len(hist) - 3].todos

\* C18: after addTodo(title, parentId); undo(); redo() the added node is in the
\* tree again, under the recorded parent or at the root when none was given.
C18_RedoAddInserts ==
    (UndoneAndRedone("addTodo")
        /\ (Prev2.args[2] = NULL \/ Prev2.args[2] \in IdsOf(Before3)))
        => LET added == Prev2.undoStack[Len(Prev2.undoStack)].todo.id IN
           /\ added \in IdsOf(Last.todos)
           /\ ParentIdAt(Last.todos, added) = Prev2.args[2]

\* C19: after deleteTodo(X); undo(); redo() node X and all its descendants are
\* absent from the tree.
C19_RedoDeleteRemoves ==
    UndoneAndRedone("deleteTodo")
        => LET x == NodeAt(Before3, Prev2.args[1])[1] IN
           ({x.id} \cup IdsOf(x.children)) \cap IdsOf(Last.todos) = {}

\* C20: after an accepted moveTodo(d, t, position); undo(); redo() the dragged
\* node is at the same parent and sibling index as directly after the move
\* (for d # t and t outside the subtree of d).
C20_RedoMoveRestoresPosition ==
    (UndoneAndRedone("moveTodo")
        /\ Prev2.args[2] # Prev2.args[1]
        /\ Prev2.args[2] \notin IdsOf(NodeAt(Before3, Prev2.args[1])[1].children))
        => WhereIs(Last.todos, Prev2.args[1]) = WhereIs(Prev2.todos, Prev2.args[1])

\* the last call was an accepted moveTodo(d, t, position) with t a node other
\* than d and outside the subtree of d
MovedOntoNode ==
    /\ Len(hist) >= 2
    /\ Last.call = "moveTodo" /\ Last.accepted
    /\ Last.args[2] # NULL
    /\ Last.args[2] # Last.args[1]
    /\ Last.args[2] \notin IdsOf(NodeAt(Prev.todos, Last.args[1])[1].children)

\* C21: an accepted moveTodo(d, t, position) onto a node t outside the subtree
\* of d leaves d once in the tree with its subtree intact: immediately before
\* t among t's siblings for 'before', immediately after t for 'after', and as
\* the last child of an expanded t for 'inside'.
C21_MovePlacesDragged ==
    MovedOntoNode
        => LET d    == Last.args[1]
               t    == Last.args[2]
               pos  == Last.args[3]
               now  == Last.todos
               sibs == SiblingsAt(now, d)
           IN  /\ Count(now, d) = 1
               /\ NodeAt(now, d) = NodeAt(Prev.todos, d)
               /\ pos = "before"
                      => /\ ParentIdAt(now, d) = ParentIdAt(now, t)
                         /\ IndexAt(now, t) = IndexAt(now, d) + 1
               /\ pos = "after"
                      => /\ ParentIdAt(now, d) = ParentIdAt(now, t)
                         /\ IndexAt(now, d) = IndexAt(now, t) + 1
               /\ pos = "inside"
                      => /\ ParentIdAt(now, d) = t
                         /\ IndexAt(now, d) = Len(sibs) - 1
                         /\ NodeAt(now, t)[1].expanded

\* "7", completed first, is dropped inside the collapsed "8" and leaves "6"
C21_Witness ==
    /\ MovedOntoNode
    /\ Last.args = <<"7", "8", "inside">>
    /\ ~NodeAt(Prev.todos, "8")[1].expanded
    /\ ParentIdAt(Prev.todos, "7") = "6"
    /\ NodeAt(Last.todos, "6")[1].children = <<>>

\* the last call was moveTodo(d, null, position) for a node d of the tree
MovedToRoot ==
    /\ Len(hist) >= 2
    /\ Last.call = "moveTodo"
    /\ Last.args[2] = NULL
    /\ Last.args[1] \in IdsOf(Prev.todos)

\* C22: moveTodo(d, null, position) for an existing node d is accepted for
\* every position, detaches the subtree of d from where it was and makes d the
\* last root node, behind all other root nodes, which stay as they were.
C22_RootDropAppends ==
    MovedToRoot
        => LET d   == Last.args[1]
               now == Last.todos
           IN  /\ Last.accepted
               /\ now # <<>>
               /\ now[Len(now)] = NodeAt(Prev.todos, d)[1]
               /\ SubSeq(now, 1, Len(now) - 1) = CutFirst(Prev.todos, d)
               /\ d \notin IdsOf(SubSeq(now, 1, Len(now) - 1))

\* the nested "7" is dropped at the root with position 'inside'
C22_Witness ==
    /\ MovedToRoot
    /\ Last.args = <<"7", NULL, "inside">>
    /\ ParentIdAt(Prev.todos, "7") = "6"
    /\ Last.todos[Len(Last.todos)].id = "7"
    /\ NodeAt(Last.todos, "6")[1].children = <<>>

\* the last call was addTodo at the root or under a node of the tree
AddedUnderKnownParent ==
    /\ Len(hist) >= 2
    /\ Last.call = "addTodo"
    /\ (Last.args[2] = NULL \/ Last.args[2] \in IdsOf(Prev.todos))

\* C23: addTodo(title, parentId) with an existing parent inserts a new
\* incomplete, childless node with a fresh id as the first child of the parent
\* and expands the parent; without a parent the node becomes the first root
\* node; in both cases exactly one add operation is recorded.
C23_AddInsertsFirst ==
    AddedUnderKnownParent
        => LET op    == Last.undoStack[Len(Last.undoStack)]
               added == op.todo.id
               now   == Last.todos
           IN  /\ Last.accepted
               /\ Len(Last.undoStack) = Len(Prev.undoStack) + 1
               /\ SubSeq(Last.undoStack, 1, Len(Prev.undoStack)) = Prev.undoStack
               /\ op.type = "add" /\ op.parentId = Last.args[2]
               /\ added \notin IdsOf(Prev.todos)
               /\ NodeAt(now, added) = <<op.todo>>
               /\ ~op.todo.completed /\ op.todo.children = <<>>
               /\ op.todo.title = Last.args[1]
               /\ ParentIdAt(now, added) = Last.args[2]
               /\ IndexAt(now, added) = 0
               /\ Last.args[2] # NULL => NodeAt(now, Last.args[2])[1].expanded

\* a node is added under the collapsed "6", in front of its child "7", after
\* an earlier mutation
C23_Witness ==
    /\ AddedUnderKnownParent
    /\ Last.args[2] = "6"
    /\ Len(Prev.undoStack) > 0
    /\ ~NodeAt(Prev.todos, "6")[1].expanded
    /\ Len(NodeAt(Last.todos, "6")[1].children) = 2
    /\ NodeAt(Last.todos, "6")[1].children[2].id = "7"

\* a sequence without its last element
Front(q) == SubSeq(q, 1, Len(q) - 1)

\* C24: undo() with a non-empty undo stack removes exactly its last operation
\* and appends that operation to the redo stack, which is otherwise unchanged;
\* redo() does the symmetric transfer; undo() followed by redo() leaves both
\* stacks as they were.
C24_ReplayTransfers ==
    /\ (Len(hist) >= 2 /\ Last.call = "undo" /\ Len(Prev.undoStack) > 0)
           => /\ Last.accepted
              /\ Last.undoStack = Front(Prev.undoStack)
              /\ Last.redoStack =
                     Append(Prev.redoStack, Prev.undoStack[Len(Prev.undoStack)])
    /\ (Len(hist) >= 2 /\ Last.call = "redo" /\ Len(Prev.redoStack) > 0)
           => /\ Last.accepted
              /\ Last.redoStack = Front(Prev.redoStack)
              /\ Last.undoStack =
                     Append(Prev.undoStack, Prev.redoStack[Len(Prev.redoStack)])
    /\ (Len(hist) >= 3 /\ Prev.call = "undo" /\ Prev.accepted
            /\ Last.call = "redo")
           => /\ Last.undoStack = Prev2.undoStack
              /\ Last.redoStack = Prev2.redoStack

\* undo() then redo() with operations waiting on both stacks
C24_Witness ==
    /\ Len(hist) >= 3
    /\ Prev.call = "undo" /\ Prev.accepted
    /\ Last.call = "redo" /\ Last.accepted
    /\ Len(Prev2.redoStack) > 0
    /\ Len(Prev2.undoStack) > 1
    /\ Len(Prev.redoStack) = Len(Prev2.redoStack) + 1

\* C25: canUndo is true exactly when undo() has an operation to revert and
\* canRedo exactly when redo() has one to replay; undo() with an empty undo
\* stack and redo() with an empty redo stack leave the tree and both stacks
\* unchanged.
C25_ReplayNeedsOperation ==
    /\ canUndo = (undoStack # <<>>)
    /\ canRedo = (redoStack # <<>>)
    /\ (Len(hist) >= 2 /\ Last.call = "undo" /\ Prev.undoStack = <<>>)
           => (~Last.accepted /\ NothingChanged)
    /\ (Len(hist) >= 2 /\ Last.call = "redo" /\ Prev.redoStack = <<>>)
           => (~Last.accepted /\ NothingChanged)
    /\ (Len(hist) >= 2 /\ Last.call = "undo" /\ Last.accepted) => canRedo
    /\ (Len(hist) >= 2 /\ Last.call = "redo" /\ Last.accepted) => canUndo

\* redo() finds nothing to replay because a mutation after an undo() cleared
\* the redo stack, while undo() is still possible
C25_Witness ==
    /\ Len(hist) >= 3
    /\ Last.call = "redo" /\ ~Last.accepted
    /\ Prev.call \in Mutations /\ Prev.accepted
    /\ Prev2.call = "undo" /\ Prev2.accepted
    /\ canUndo /\ ~canRedo

\* C26: in every state reached by toggles, undos and redos from the initial
\* tree a node has an endDate if and only if it is completed.
C26_EndDateIffCompleted ==
    \A n \in NodeSet(todos) : (n.endDate # "none") = n.completed

\* a node completed by a toggle was reopened by undo() and completed again by
\* redo(), and carries an endDate
C26_Witness ==
    /\ ToggleReplayed("redo")
    /\ Prev.call = "undo" /\ Prev.accepted
    /\ ~Replayed.oldCompleted
    /\ NodeAt(Prev.todos, Replayed.id)[1].endDate = "none"
    /\ NodeAt(todos, Replayed.id)[1].completed
    /\ NodeAt(todos, Replayed.id)[1].endDate # "none"

\* the last call was removeTodoIfEmpty for a node of the tree
TitleCommitted ==
    /\ Len(hist) >= 2
    /\ Last.call = "removeTodoIfEmpty"
    /\ Last.args[1] \in IdsOf(Prev.todos)

\* C27: removeTodoIfEmpty(id, title) with an empty or white-space title removes
\* the node with that id and its subtree from the tree; with a non-blank title
\* it leaves the tree and both stacks unchanged.
C27_EmptyTitleDeletes ==
    TitleCommitted
        => IF Last.args[2] \in {"", " "}
           THEN /\ Last.args[1] \notin IdsOf(Last.todos)
                /\ Last.todos = CutFirst(Prev.todos, Last.args[1])
           ELSE NothingChanged

\* the node just created with an empty title is committed with a blank title
C27_Witness ==
    /\ TitleCommitted
    /\ Prev.call = "addTodo"
    /\ Last.args = <<Prev.undoStack[Len(Prev.undoStack)].todo.id, " ">>
    /\ Len(Nodes(Last.todos)) = Len(Nodes(Prev.todos)) - 1

\* the node of a sibling list that carries this id
Sibling(ts, id) == ts[CHOOSE i \in 1..Len(ts) : ts[i].id = id]

\* position of an id in a sibling list
Pos(ts, id) == CHOOSE i \in 1..Len(ts) : ts[i].id = id

\* 'after' is 'before' with, at every level, the incomplete nodes first and
\* the completed nodes behind them, each group in its former order, every
\* node keeping its fields and its own children
RECURSIVE StablePartition(_, _)
StablePartition(before, after) ==
    /\ Len(after) = Len(before)
    /\ {after[i].id : i \in 1..Len(after)} = {before[i].id : i \in 1..Len(before)}
    /\ \A i, j \in 1..Len(after) :
          i < j => (after[i].completed => after[j].completed)
    /\ \A i, j \in 1..Len(before) :
          (i < j /\ before[i].completed = before[j].completed)
              => Pos(after, before[i].id) < Pos(after, before[j].id)
    /\ \A i \in 1..Len(before) :
          LET n == Sibling(after, before[i].id) IN
          /\ [n EXCEPT !.children = <<>>] = [before[i] EXCEPT !.children = <<>>]
          /\ StablePartition(before[i].children, n.children)

\* C29: sortTodos is a stable partition at every level (incomplete nodes in
\* their former order, then completed nodes in their former order), keeps the
\* nodes and every parent-child relation, and sorting a sorted tree changes
\* nothing.
C29_SortIsStablePartition ==
    (Len(hist) >= 2 /\ Last.call = "sortTodos")
        => /\ StablePartition(Prev.todos, Last.todos)
           /\ sortTodos(Last.todos) = Last.todos

\* a forest with a completed node in front of an incomplete sibling at the
\* root and among the children is sorted
C29_Witness ==
    /\ Len(hist) >= 2 /\ Last.call = "sortTodos"
    /\ Prev.todos[1].completed /\ ~Prev.todos[2].completed
    /\ Prev.todos[1].children[1].completed /\ ~Prev.todos[1].children[2].completed
    /\ Last.todos[3].id = "a"
    /\ Last.todos[3].children[1].id = "a2"

\* C30: isAllChildrenCompleted(node) is true exactly when every strict
\* descendant of node is completed, vacuously for a node without children; a
\* completed child with an incomplete descendant makes it false.
C30_AllDescendantsCompleted ==
    (Len(hist) >= 2 /\ Last.call = "isAllChildrenCompleted")
        => Last.accepted =
               (\A d \in Descendants(NodeAt(Prev.todos, Last.args[1])[1]) : d.completed)

\* asked for "a" whose children are both completed while the grandchild is not
C30_Witness ==
    /\ Len(hist) >= 2 /\ Last.call = "isAllChildrenCompleted"
    /\ Last.args = <<"a">>
    /\ NodeAt(todos, "a1")[1].completed /\ NodeAt(todos, "a2")[1].completed
    /\ ~NodeAt(todos, "a11")[1].completed
    /\ ~Last.accepted

\* the calls of the persistence layer
SyncCalls == {"loadOnMount", "autoSync", "syncToDatabase", "loadFromDatabase"}

\* the last call was a load or a sync that reached fetchAll or saveAll
Persisted(calls) ==
    /\ Len(hist) >= 2
    /\ Last.call \in calls
    /\ Last.accepted

\* C28: fetchAll and saveAll never throw to their caller; fetchAll returns an
\* empty tree and saveAll returns false when the store is unconfigured or a
\* request to it fails; no load or sync step changes the tree, the undo stack
\* or the redo stack.
C28_PersistenceIsolated ==
    /\ (Len(hist) >= 2 /\ Last.call \in SyncCalls) => NothingChanged
    /\ ~db.threw
    /\ Persisted({"loadOnMount", "loadFromDatabase"})
           => ((~db.configured \/ Last.args[2] # "ok") => db.fetched = <<>>)
    /\ Persisted({"autoSync", "syncToDatabase"})
           => ((~db.configured
                   \/ Last.args[1] # "ok"
                   \/ (Prev.todos # <<>> /\ Last.args[2] # "ok"))
                  => ~db.saved)

\* the last call was an accepted undo() or redo() of an update whose node is
\* in the tree
UpdateReplayed ==
    /\ Len(hist) >= 2
    /\ Last.call \in {"undo", "redo"} /\ Last.accepted
    /\ Replayed.type = "update"
    /\ NodeAt(Prev.todos, Replayed.id) # <<>>

\* C31: undo or redo of an update operation changes only the title of the
\* targeted node: its children, its completed flag and its expanded flag are
\* after the replay what they were immediately before it.
C31_UpdateReplayKeepsNode ==
    UpdateReplayed
        => LET before == NodeAt(Prev.todos, Replayed.id)[1]
               after  == NodeAt(Last.todos, Replayed.id)
           IN  /\ after # <<>>
               /\ after[1].completed = before.completed
               /\ after[1].expanded = before.expanded
               /\ Shape(after[1].children) = Shape(before.children)

\* C32: in every reachable state every completed node has only completed
\* descendants.
C32_CompletedOverCompleted ==
    \A n \in NodeSet(todos) : n.completed => ~HasIncompleteDescendant(n)

\* C33: in every reachable state the undo stack and the redo stack hold
\* together at most MAX_HISTORY_SIZE operations.
C33_StacksBoundedTogether ==
    Len(undoStack) + Len(redoStack) <= MAX_HISTORY_SIZE

\* redo() has just pushed the fiftieth operation onto the undo stack while
\* the redo stack was empty again
C33_Witness ==
    /\ Len(hist) >= 2
    /\ Last.call = "redo" /\ Last.accepted
    /\ Len(Prev.undoStack) = MAX_HISTORY_SIZE - 1
    /\ Len(undoStack) = MAX_HISTORY_SIZE
    /\ Len(Prev.redoStack) = 1

\* undo() was called twice within one render with at least two operations on
\* the undo stack
TwoUndone ==
    /\ Len(hist) >= 2
    /\ Last.call = "undoTwice"
    /\ Len(Prev.undoStack) >= 2

\* C34: two undo() calls issued back-to-back before the hook state is
\* published again take the two most recent operations off the undo stack,
\* invert both on the tree, and push each exactly once onto the redo stack.
C34_UndoTwiceInvertsTwo ==
    TwoUndone
        => LET n      == Len(Prev.undoStack)
               first  == Prev.undoStack[n]
               second == Prev.undoStack[n - 1]
               once   == sortTodos(applyOperation(Prev.todos, first, FALSE))
               twice  == sortTodos(applyOperation(once, second, FALSE))
           IN  /\ Last.undoStack = SubSeq(Prev.undoStack, 1, n - 2)
               /\ Last.redoStack = Prev.redoStack \o <<first, second>>
               /\ Shape(Last.todos) = Shape(twice)

\* the last call was an accepted undo() of a delete entry without a node, as
\* removeTodoIfEmpty records it
EmptyDeleteUndone ==
    /\ Len(hist) >= 2
    /\ Last.call = "undo" /\ Last.accepted
    /\ Replayed.type = "delete"
    /\ Replayed.todo = <<>>

\* C35: undo() of the delete entry recorded by removeTodoIfEmpty leaves the
\* tree unchanged (the removed node is not restored), takes the entry off the
\* undo stack and pushes it onto the redo stack.
C35_EmptyDeleteUndoKeepsTree ==
    EmptyDeleteUndone
        => /\ Shape(Last.todos) = Shape(Prev.todos)
           /\ Last.undoStack = Front(Prev.undoStack)
           /\ Last.redoStack = Append(Prev.redoStack, Replayed)

\* the nodes of a forest, each with the id of its parent: two forests with the
\* same Nesting hold the same nodes under the same parents
RECURSIVE Nesting(_, _)
Nesting(ts, parentId) ==
    UNION { {<<parentId, [Shape(<<ts[i]>>)[1] EXCEPT !.children = <<>>]>>}
                \cup Nesting(ts[i].children, ts[i].id) : i \in 1..Len(ts) }

\* an accepted moveTodo that kept the dragged node in the tree was undone
PresentMoveUndone ==
    /\ MoveUndone
    /\ NodeAt(Prev.todos, Prev.args[1]) # <<>>

ToggledOnOrdered ==
    /\ Len(hist) >= 2
    /\ Last.call = "toggleTodo" /\ Last.accepted
    /\ Ordered(Prev.todos)

\* the ids of a sibling list, in order, without one id
IdsWithout(ts, id) ==
    LET others == SelectSeq(ts, LAMBDA t : t.id # id) IN
    [i \in 1..Len(others) |-> others[i].id]

\* 'after' is 'before' with, at every level, the nodes other than id in their
\* former order, and the node id, where it occurs, as the first of the
\* completed or the last of the incomplete nodes of its sibling list
RECURSIVE Relocated(_, _, _)
Relocated(before, after, id) ==
    /\ Len(after) = Len(before)
    /\ IdsWithout(after, id) = IdsWithout(before, id)
    /\ \A k \in 1..Len(after) :
          after[k].id = id
              => IF after[k].completed
                 THEN /\ \A j \in 1..(k - 1) : after[j].id # id => ~after[j].completed
                      /\ \A j \in (k + 1)..Len(after) : after[j].completed
                 ELSE /\ \A j \in 1..(k - 1) : ~after[j].completed
                      /\ \A j \in (k + 1)..Len(after) : after[j].id # id => after[j].completed
    /\ \A i \in 1..Len(before) :
          Relocated(before[i].children, Sibling(after, before[i].id).children, id)

\* C37: an accepted toggleTodo on a tree that satisfies the ordering rule only
\* relocates the toggled node within its sibling list: a node that becomes
\* completed is the first of its completed siblings, a node that becomes
\* incomplete is the last of its incomplete siblings, and the other siblings
\* and all other levels keep their order.
C37_ToggleRelocatesNode ==
    ToggledOnOrdered
        => LET id == Last.args[1] IN
           /\ NodeAt(Last.todos, id)[1].completed = ~NodeAt(Prev.todos, id)[1].completed
           /\ ParentIdAt(Last.todos, id) = ParentIdAt(Prev.todos, id)
           /\ Relocated(Prev.todos, Last.todos, id)

\* "1" is completed after all its descendants: it moves from the front of the
\* root list to the place in front of the completed "8", behind "6"
C37_Witness ==
    /\ ToggledOnOrdered
    /\ Last.args[1] = "1"
    /\ [i \in 1..Len(Prev.todos) |-> Prev.todos[i].id] = <<"1", "6", "8">>
    /\ [i \in 1..Len(Last.todos) |-> Last.todos[i].id] = <<"6", "1", "8">>
    /\ Last.todos[2].completed

\* the saves of both callers overlapped and both have returned true
OverlappedSavesDone ==
    \A who \in Savers :
        /\ db.saves[who].pc = "returned"
        /\ db.saves[who].value
        /\ db.saves[who].overlapped

\* C38: when the save of the interval callback and the save of syncToDatabase
\* overlap and both have returned true, the remote table holds exactly the
\* flattened records of one of the two saved snapshots.
C38_OverlapLeavesOneSnapshot ==
    OverlappedSavesDone
        => \E who \in Savers : db.table = wire(db.saves[who].flatRecords)

\* the ids of a forest in their nesting and sibling order
RECURSIVE IdTree(_)
IdTree(ts) ==
    [i \in 1..Len(ts) |-> [id |-> ts[i].id, children |-> IdTree(ts[i].children)]]

\* the last call flattened and rebuilt a forest without a repeated id
RoundTripped ==
    /\ Len(hist) >= 2
    /\ Last.call = "roundTrip"
    /\ \A id \in IdsOf(Prev.todos) : Count(Prev.todos, id) = 1

\* C39: for a forest with unique ids, treeToFlat gives each record the id of
\* its node's parent (null for a root) and the node's index among its siblings
\* as order_index, and flatToTree of these records has the nesting and the
\* sibling order of the forest at every level.
C39_FlatRoundTrip ==
    RoundTripped
        => LET records == treeToFlat(Prev.todos, NULL) IN
           /\ Len(records) = Len(Nodes(Prev.todos))
           /\ \A k \in 1..Len(records) :
                 /\ records[k].id \in IdsOf(Prev.todos)
                 /\ records[k].parent_id = ParentIdAt(Prev.todos, records[k].id)
                 /\ records[k].order_index = IndexAt(Prev.todos, records[k].id)
           /\ IdTree(Last.todos) = IdTree(Prev.todos)

\* a forest three levels deep whose root list was reordered by a sort is
\* flattened and rebuilt
C39_Witness ==
    /\ Len(hist) >= 3
    /\ RoundTripped
    /\ Prev.call = "sortTodos"
    /\ Prev.todos[1].id # "a"
    /\ \E n \in NodeSet(Prev.todos) :
          \E c \in NodeSet(n.children) : Len(c.children) > 0

====
